---- MODULE Spec2Model ----
(***************************************************************************)
(* ClaudIn server: profile reconciliation (upsertProfile), the profile     *)
(* sync handlers and the enrichment queue, as a state machine over the     *)
(* SQLite tables profiles, enrichment_queue and sync_log.                  *)
(***************************************************************************)
EXTENDS Integers, Sequences, FiniteSets, TLC

VARIABLES
    profiles,   \* table profiles: public_identifier -> row (UNIQUE key)
    queue,      \* table enrichment_queue: public_identifier -> task row
    syncLog,    \* table sync_log, in insertion order
    now,        \* the wall clock read by new Date() / datetime('now')
    last,       \* the last request served: handler, input, outcome
    fullSeen,   \* history: per key, the fields a full observation populated
    posts,      \* table posts: id -> author_name, author_headline
    calls,      \* per client, its GET /enrich/next request and the answer
    handed,     \* history: per key, the clients handed the task, in
                \* order, since it was last put back to pending
    reports,    \* history: per key, the failure reports since the task was
                \* last enqueued or reported done
    isEnrichmentRunning,  \* the flag of the extension's background script
    runs,       \* per alarm firing, where its processEnrichmentQueue() is
    profilesCache,  \* the extension's Map profilesCache: key -> profile
    storage,    \* chrome.storage.local[claudin_profiles]: key -> profile
    inits       \* per caller of initializeCache(), where its run is

clientVars == <<calls, handed, reports>>
extensionVars == <<isEnrichmentRunning, runs>>
cacheVars == <<profilesCache, storage, inits>>

vars == <<profiles, queue, syncLog, now, last, fullSeen, posts, clientVars, extensionVars, cacheVars>>

-----------------------------------------------------------------------------
(* Bounds of the model *)

MaxClock == 2
MaxBatch == 3
MaxReports == 3
MaxText == 4
MaxSyncs == 3

(* Program constants *)

MAX_ATTEMPTS == 3

-----------------------------------------------------------------------------
(* JavaScript and SQL values *)

\* SQL NULL / JS null
Null == "NULL"
\* a property the incoming JSON object does not carry (JS undefined)
Absent == "ABSENT"
\* a JS array value; SQL stores its JSON text
Arr(items) == [t |-> "array", items |-> items]
NullV == [t |-> "null"]
AbsentV == [t |-> "absent"]
\* no timestamp (undefined in JS, NULL in SQL); real timestamps are >= 1
NoTime == 0

Keys == {"alice", "bob"}
Lists == {<<>>, <<"x">>}

\* JS truthiness of a string-or-null value
Truthy(v) == v \notin {Absent, Null, ""}
\* JS truthiness of an array-or-null value: every array, also [], is truthy
TruthyV(v) == v.t = "array"

\* a || b on strings
OrElse(a, b) == IF Truthy(a) THEN a ELSE b

\* better-sqlite3 binds undefined and null as NULL
Bind(v) == IF v = Absent THEN Null ELSE v

\* SQL COALESCE(a, b)
Coalesce(a, b) == IF a # Null THEN a ELSE b

\* JSON.stringify of an array of strings
JSONStringify(items) ==
    IF items = <<>> THEN "[]" ELSE "[" \o items[1] \o "]"

\* JSON.parse of a stored JSON text
JSONParse(text) == CHOOSE items \in Lists : JSONStringify(items) = text

LinkedinUrlOf(key) == "https://www.linkedin.com/in/" \o key

\* generateId('profile'): a fresh id, distinct per inserted row
generateId(key) == "profile_" \o key

-----------------------------------------------------------------------------
(* db/profiles.ts: rowToProfile and upsertProfile *)

\* a detail column read back: row.experience ? JSON.parse(row.experience) : null
ParseColumn(text) == IF Truthy(text) THEN Arr(JSONParse(text)) ELSE NullV

rowToProfile(row) ==
    [ id               |-> row.id,
      linkedinUrl      |-> row.linkedin_url,
      publicIdentifier |-> row.public_identifier,
      headline         |-> OrElse(row.headline, ""),
      location         |-> row.location,
      about            |-> row.about,
      connectedAt      |-> row.connected_at,
      experience       |-> ParseColumn(row.experience),
      education        |-> ParseColumn(row.education),
      skills           |-> ParseColumn(row.skills),
      scrapedAt        |-> row.scraped_at,
      isPartial        |-> (row.is_partial = 1) ]

\* {...rowToProfile(existing), ...profile}: a property of profile, when the
\* object carries it, overrides the existing one
Spread(existingValue, incoming) ==
    IF incoming = Absent THEN existingValue ELSE incoming

SpreadTime(existingTime, incoming) ==
    IF incoming = NoTime THEN existingTime ELSE incoming

\* profile.experience || existing.experience
\*     ? JSON.parse(existing.experience || '[]') : null
MergedDetail(incoming, existingText) ==
    IF TruthyV(incoming) \/ Truthy(existingText)
    THEN Arr(JSONParse(OrElse(existingText, "[]")))
    ELSE NullV

\* about: profile.about || existing.about
MergedAbout(incoming, existingAbout) == OrElse(incoming, existingAbout)

\* the object built when the row exists and the observation is partial
MergedPartial(existing, profile) ==
    LET e == rowToProfile(existing) IN
    [ id               |-> Spread(e.id, profile.id),
      linkedinUrl      |-> Spread(e.linkedinUrl, profile.linkedinUrl),
      publicIdentifier |-> profile.publicIdentifier,
      headline         |-> Spread(e.headline, profile.headline),
      location         |-> Spread(e.location, profile.location),
      connectedAt      |-> Spread(e.connectedAt, profile.connectedAt),
      scrapedAt        |-> SpreadTime(e.scrapedAt, profile.scrapedAt),
      isPartial        |-> profile.isPartial,
      experience       |-> MergedDetail(profile.experience, existing.experience),
      education        |-> MergedDetail(profile.education, existing.education),
      skills           |-> MergedDetail(profile.skills, existing.skills),
      about            |-> MergedAbout(profile.about, existing.about) ]

StringifyNonEmpty(value) ==
    IF TruthyV(value) /\ value.items # <<>> THEN JSONStringify(value.items) ELSE Null

\* merged.experience ? JSON.stringify(merged.experience) : null
StringifyColumn(value) ==
    IF TruthyV(value) THEN JSONStringify(value.items) ELSE Null

ExcludedStampedNow(id, merged, t) ==
    [ id                |-> id,
      linkedin_url      |-> Bind(merged.linkedinUrl),
      public_identifier |-> merged.publicIdentifier,
      headline          |-> Bind(merged.headline),
      location          |-> Bind(merged.location),
      about             |-> Bind(merged.about),
      connected_at      |-> Bind(merged.connectedAt),
      experience        |-> StringifyColumn(merged.experience),
      education         |-> StringifyColumn(merged.education),
      skills            |-> StringifyColumn(merged.skills),
      scraped_at        |-> t,
      is_partial        |-> IF merged.isPartial THEN 1 ELSE 0,
      updated_at        |-> t ]

\* the values bound by stmt.run(...): the row the INSERT proposes (excluded)
Excluded(id, merged, t) ==
    [ id                |-> id,
      linkedin_url      |-> Bind(merged.linkedinUrl),
      public_identifier |-> merged.publicIdentifier,
      headline          |-> Bind(merged.headline),
      location          |-> Bind(merged.location),
      about             |-> Bind(merged.about),
      connected_at      |-> Bind(merged.connectedAt),
      experience        |-> StringifyColumn(merged.experience),
      education         |-> StringifyColumn(merged.education),
      skills            |-> StringifyColumn(merged.skills),
      scraped_at        |-> IF merged.scrapedAt # NoTime THEN merged.scrapedAt ELSE t,
      is_partial        |-> IF merged.isPartial THEN 1 ELSE 0,
      updated_at        |-> t ]

ScalarOverwrite(old, excludedValue) == excludedValue

ScalarKeepOld(old, excludedValue) == Coalesce(old, excludedValue)

\* headline = COALESCE(excluded.headline, headline)
ScalarUpdate(old, excludedValue) == Coalesce(excludedValue, old)

\* experience = CASE WHEN excluded.is_partial = 0 THEN excluded.experience
\*              ELSE COALESCE(experience, excluded.experience) END
DetailUpdate(old, excludedPartial, excludedValue) ==
    IF excludedPartial = 0 THEN excludedValue ELSE Coalesce(old, excludedValue)

PartialFlagOverwrite(old, excludedPartial) == excludedPartial

\* is_partial = CASE WHEN is_partial = 1 AND excluded.is_partial = 0 THEN 0
\*              ELSE is_partial END
PartialFlagUpdate(old, excludedPartial) ==
    IF old = 1 /\ excludedPartial = 0 THEN 0 ELSE old

\* ON CONFLICT(public_identifier) DO UPDATE SET ...: id, linkedin_url,
\* connected_at (and last_interaction) are not in the SET list
OnConflictUpdate(row, ex) ==
    [ row EXCEPT
        !.headline   = ScalarUpdate(@, ex.headline),
        !.location   = ScalarUpdate(@, ex.location),
        !.about      = ScalarUpdate(@, ex.about),
        !.experience = DetailUpdate(@, ex.is_partial, ex.experience),
        !.education  = DetailUpdate(@, ex.is_partial, ex.education),
        !.skills     = DetailUpdate(@, ex.is_partial, ex.skills),
        !.scraped_at = ex.scraped_at,
        !.is_partial = PartialFlagUpdate(@, ex.is_partial),
        !.updated_at = ex.updated_at ]

\* the INSERT violates linkedin_url NOT NULL (checked before the upsert
\* target), or, for a new key, UNIQUE(linkedin_url) or PRIMARY KEY(id)
ConstraintFails(store, key, ex) ==
    \/ ex.linkedin_url = Null
    \/ /\ key \notin DOMAIN store
       /\ \E k \in DOMAIN store :
             store[k].linkedin_url = ex.linkedin_url \/ store[k].id = ex.id

\* getProfileById(id)
getProfileById(store, id) ==
    IF \E k \in DOMAIN store : store[k].id = id
    THEN rowToProfile(store[CHOOSE k \in DOMAIN store : store[k].id = id])
    ELSE NullV

\* an upsert without the publicIdentifier guard: the INSERT violates NOT NULL
upsertUnguarded(store, profile, t) ==
    LET key      == profile.publicIdentifier
        exists   == key \in DOMAIN store
        id       == IF exists THEN store[key].id ELSE generateId(key)
        merged   == IF exists /\ profile.isPartial
                    THEN MergedPartial(store[key], profile)
                    ELSE profile
        ex       == Excluded(id, merged, t)
        newStore == IF exists
                    THEN [store EXCEPT ![key] = OnConflictUpdate(@, ex)]
                    ELSE [k \in DOMAIN store \cup {key} |->
                             IF k = key THEN ex ELSE store[k]]
    IN IF ~Truthy(key) \/ ConstraintFails(store, key, ex)
       THEN [store |-> store, outcome |-> "threw", entity |-> NullV]
       ELSE [store |-> newStore, outcome |-> "saved",
             entity |-> getProfileById(newStore, id)]

\* an upsert that writes the incoming observation over the row
upsertReplace(store, profile, t) ==
    IF ~Truthy(profile.publicIdentifier)
    THEN [store |-> store, outcome |-> "null", entity |-> NullV]
    ELSE
      LET key == profile.publicIdentifier
          id  == IF key \in DOMAIN store THEN store[key].id ELSE generateId(key)
          ex  == Excluded(id, profile, t)
          newStore == [k \in DOMAIN store \cup {key} |->
                          IF k = key THEN ex ELSE store[k]]
      IN IF ConstraintFails(store, key, ex)
         THEN [store |-> store, outcome |-> "threw", entity |-> NullV]
         ELSE [store |-> newStore, outcome |-> "saved",
               entity |-> getProfileById(newStore, id)]

\* upsertProfile(profile) at time t: the table afterwards and what the call
\* did: returned null, returned the stored entity, or threw
upsertProfile(store, profile, t) ==
    IF ~Truthy(profile.publicIdentifier)
    THEN [store |-> store, outcome |-> "null", entity |-> NullV]
    ELSE
      LET key      == profile.publicIdentifier
          exists   == key \in DOMAIN store
          id       == IF exists THEN store[key].id
                      ELSE IF Truthy(profile.id) THEN profile.id
                      ELSE generateId(key)
          merged   == IF exists /\ profile.isPartial
                      THEN MergedPartial(store[key], profile)
                      ELSE profile
          ex       == Excluded(id, merged, t)
          newStore == IF exists
                      THEN [store EXCEPT ![key] = OnConflictUpdate(@, ex)]
                      ELSE [k \in DOMAIN store \cup {key} |->
                               IF k = key THEN ex ELSE store[k]]
      IN IF ConstraintFails(store, key, ex)
         THEN [store |-> store, outcome |-> "threw", entity |-> NullV]
         ELSE [store |-> newStore, outcome |-> "saved",
               entity |-> getProfileById(newStore, id)]

-----------------------------------------------------------------------------
(* routes/sync.ts and routes/profiles.ts: the handlers that call            *)
(* upsertProfile                                                           *)

\* withTransaction(fn): fn's writes are committed when fn returns and
\* rolled back when it throws
withTransaction(before, after, threw) == IF threw THEN before ELSE after

\* syncResult.failed.push({ id, error })
Failure(id, error) == [id |-> id, error |-> error]

\* an iteration that gives up on the batch after its first failure
SyncProfileItemBreak(acc, item, t) ==
    IF acc.failed # <<>> THEN acc
    ELSE IF ~Truthy(item.publicIdentifier)
    THEN [acc EXCEPT
            !.failed = Append(@, Failure("unknown", "Missing publicIdentifier")),
            !.outcomes = Append(@, "rejected")]
    ELSE LET r == upsertProfile(acc.store, item, t) IN
         CASE r.outcome = "saved" ->
                [acc EXCEPT !.store = r.store,
                            !.saved = @ + 1,
                            !.syncedIds = Append(@, item.publicIdentifier),
                            !.outcomes = Append(@, "saved")]
           [] r.outcome = "threw" ->
                [acc EXCEPT !.failed = Append(@, Failure(item.publicIdentifier,
                                                         "SqliteError")),
                            !.outcomes = Append(@, "threw")]
           [] OTHER ->
                [acc EXCEPT !.outcomes = Append(@, "null")]

\* an iteration whose catch block records nothing
SyncProfileItemSwallow(acc, item, t) ==
    IF ~Truthy(item.publicIdentifier)
    THEN [acc EXCEPT
            !.failed = Append(@, Failure("unknown", "Missing publicIdentifier")),
            !.outcomes = Append(@, "rejected")]
    ELSE LET r == upsertProfile(acc.store, item, t) IN
         CASE r.outcome = "saved" ->
                [acc EXCEPT !.store = r.store,
                            !.saved = @ + 1,
                            !.syncedIds = Append(@, item.publicIdentifier),
                            !.outcomes = Append(@, "saved")]
           [] OTHER ->
                [acc EXCEPT !.outcomes = Append(@, "null")]

\* one iteration of the loop of POST /sync/profiles over item
SyncProfileItem(acc, item, t) ==
    IF ~Truthy(item.publicIdentifier)
    THEN [acc EXCEPT
            !.failed = Append(@, Failure("unknown", "Missing publicIdentifier")),
            !.outcomes = Append(@, "rejected")]
    ELSE LET r == upsertProfile(acc.store, item, t) IN
         CASE r.outcome = "saved" ->
                [acc EXCEPT !.store = r.store,
                            !.saved = @ + 1,
                            !.syncedIds = Append(@, item.publicIdentifier),
                            !.outcomes = Append(@, "saved")]
           [] r.outcome = "threw" ->
                [acc EXCEPT !.failed = Append(@, Failure(item.publicIdentifier,
                                                         "SqliteError")),
                            !.outcomes = Append(@, "threw")]
           [] OTHER ->
                [acc EXCEPT !.outcomes = Append(@, "null")]

\* the loop of POST /sync/profiles: every item is attempted
RECURSIVE SyncProfilesLoop(_, _, _)
SyncProfilesLoop(acc, items, t) ==
    IF items = <<>> THEN acc
    ELSE SyncProfilesLoop(SyncProfileItem(acc, Head(items), t), Tail(items), t)

\* syncResult = { saved: 0, failed: [], syncedIds: [] } over the table
EmptyResult(store) ==
    [store |-> store, saved |-> 0, failed |-> <<>>, syncedIds |-> <<>>,
     outcomes |-> <<>>, threw |-> FALSE]

\* one iteration of a loop with no try/catch (POST /sync/full, POST
\* /profiles/bulk): a throw ends the request, what was written stays
UncaughtItem(acc, item, t) ==
    IF acc.threw THEN acc
    ELSE LET r == upsertProfile(acc.store, item, t) IN
         CASE r.outcome = "saved" ->
                [acc EXCEPT !.store = r.store,
                            !.saved = @ + 1,
                            !.syncedIds = Append(@, item.publicIdentifier),
                            !.outcomes = Append(@, "saved")]
           [] r.outcome = "threw" ->
                [acc EXCEPT !.threw = TRUE, !.outcomes = Append(@, "threw")]
           [] OTHER ->
                [acc EXCEPT !.outcomes = Append(@, "null")]

RECURSIVE UncaughtLoop(_, _, _)
UncaughtLoop(acc, items, t) ==
    IF items = <<>> THEN acc
    ELSE UncaughtLoop(UncaughtItem(acc, Head(items), t), Tail(items), t)

\* INSERT INTO sync_log (type, count, synced_at)
LogRecord(type, count, t) == [type |-> type, count |-> count, synced_at |-> t]

-----------------------------------------------------------------------------
(* routes/enrich.ts: the enrichment queue *)

\* INSERT INTO enrichment_queue (public_identifier, url, status, queued_at)
\* VALUES (?, ?, 'pending', datetime('now')): attempts defaults to 0
NewTask(key, t) ==
    [ public_identifier |-> key,
      url               |-> LinkedinUrlOf(key) \o "/",
      status            |-> "pending",
      attempts          |-> 0,
      queued_at         |-> t,
      started_at        |-> NoTime,
      completed_at      |-> NoTime,
      error             |-> Null ]

\* an ON CONFLICT clause that keeps the attempts of the row
RequeueTaskKeepAttempts(task, t) ==
    [ task EXCEPT
        !.status    = IF @ = "completed" \/ @ = "failed" THEN "pending" ELSE @,
        !.queued_at = t,
        !.error     = Null ]

\* ON CONFLICT(public_identifier) DO UPDATE SET status = CASE ... END,
\* queued_at = datetime('now'), attempts = 0, error = NULL
RequeueTask(task, t) ==
    [ task EXCEPT
        !.status    = IF @ = "completed" \/ @ = "failed" THEN "pending" ELSE @,
        !.queued_at = t,
        !.attempts  = 0,
        !.error     = Null ]

\* the INSERT ... ON CONFLICT statement of POST /enrich/queue for one key
EnqueueKey(q, key, t) ==
    IF key \in DOMAIN q
    THEN [q EXCEPT ![key] = RequeueTask(@, t)]
    ELSE [k \in DOMAIN q \cup {key} |-> IF k = key THEN NewTask(key, t) ELSE q[k]]

\* WHERE status = 'pending' AND attempts < 3
Eligible(q) ==
    {k \in DOMAIN q : q[k].status = "pending" /\ q[k].attempts < MAX_ATTEMPTS}

\* a SELECT ordered by queued_at DESC
Newest(q) ==
    {k \in Eligible(q) : \A j \in Eligible(q) : q[k].queued_at >= q[j].queued_at}

\* ORDER BY queued_at ASC LIMIT 1: the rows the SELECT may return (rows of
\* equal queued_at are returned in an order SQL leaves open)
Oldest(q) ==
    {k \in Eligible(q) : \A j \in Eligible(q) : q[k].queued_at <= q[j].queued_at}

\* an UPDATE that does not count the attempt
ClaimTaskNoCount(task, t) ==
    [ task EXCEPT !.status = "processing", !.started_at = t ]

\* an UPDATE that leaves the status of the claimed row as it was
ClaimTaskKeepStatus(task, t) ==
    [ task EXCEPT !.started_at = t, !.attempts = @ + 1 ]

\* UPDATE enrichment_queue SET status = 'processing',
\* started_at = datetime('now'), attempts = attempts + 1 WHERE id = ?
ClaimTask(task, t) ==
    [ task EXCEPT !.status = "processing", !.started_at = t, !.attempts = @ + 1 ]

\* UPDATE ... SET status = 'completed', completed_at = datetime('now'),
\* error = NULL WHERE public_identifier = ?
CompleteTask(task, t) ==
    [ task EXCEPT !.status = "completed", !.completed_at = t, !.error = Null ]

\* an UPDATE whose CASE tests attempts > 3
FailTaskAfterFour(task, error) ==
    [ task EXCEPT
        !.status = IF task.attempts > MAX_ATTEMPTS THEN "failed" ELSE "pending",
        !.error  = OrElse(error, "Unknown error") ]

\* an UPDATE that always retries
FailTaskRetry(task, error) ==
    [ task EXCEPT !.status = "pending", !.error = OrElse(error, "Unknown error") ]

\* UPDATE ... SET status = CASE WHEN attempts >= 3 THEN 'failed'
\* ELSE 'pending' END, error = ? WHERE public_identifier = ?
FailTask(task, error) ==
    [ task EXCEPT
        !.status = IF task.attempts >= MAX_ATTEMPTS THEN "failed" ELSE "pending",
        !.error  = OrElse(error, "Unknown error") ]

\* a completion that leaves the profiles table alone
MarkNothing(store, key) == store

\* UPDATE profiles SET is_partial = 0 WHERE public_identifier = ?
MarkFull(store, key) ==
    IF key \in DOMAIN store THEN [store EXCEPT ![key].is_partial = 0] ELSE store

\* the UPDATE statements of POST /enrich/complete; they match no row when
\* the key is not queued
CompleteKey(q, key, success, error, t) ==
    IF key \notin DOMAIN q THEN q
    ELSE IF success THEN [q EXCEPT ![key] = CompleteTask(@, t)]
    ELSE [q EXCEPT ![key] = FailTask(@, error)]

\* for (const id of identifiers) stmt.run(id, ...)
RECURSIVE EnqueueAll(_, _, _)
EnqueueAll(q, ids, t) ==
    IF ids = <<>> THEN q
    ELSE EnqueueAll(EnqueueKey(q, Head(ids), t), Tail(ids), t)

\* DELETE FROM enrichment_queue WHERE status IN ('completed', 'failed')
ClearTerminal(q) ==
    [k \in {j \in DOMAIN q : q[j].status \notin {"completed", "failed"}} |-> q[k]]

-----------------------------------------------------------------------------
(* Inputs: the request bodies the handlers are driven with *)

\* a Partial<LinkedInProfile> as parsed from the request JSON
Observation(key, partial, url, headline, location, connectedAt, about, experience, education, skills, scrapedAt) ==
    [ publicIdentifier |-> key,
      id               |-> Absent,
      linkedinUrl      |-> url,
      isPartial        |-> partial,
      headline         |-> headline,
      location         |-> location,
      connectedAt      |-> connectedAt,
      about            |-> about,
      experience       |-> experience,
      education        |-> education,
      skills           |-> skills,
      scrapedAt        |-> scrapedAt ]

ObsTime == 1

\* observations of one key that vary the scalar fields
ScalarObs ==
    { Observation("alice", p, LinkedinUrlOf("alice"), h, l, c, Absent,
                  AbsentV, AbsentV, AbsentV, ObsTime) :
        p \in BOOLEAN, h \in {Absent, Null, "", "A", "B"},
        l \in {Absent, "A", "B"}, c \in {Absent, "2024"} }

DetailValues == {AbsentV} \cup {Arr(items) : items \in Lists}

\* observations of one key that vary the detail collections; the partial
\* ones, as scraped from a search result, carry the headline
DetailObs ==
    { Observation("alice", p, LinkedinUrlOf("alice"),
                  IF p THEN "Engineer" ELSE Absent, Absent, Absent, Absent,
                  ex, ed, sk, ObsTime) :
        p \in BOOLEAN,
        ex \in DetailValues, ed \in DetailValues, sk \in DetailValues }

\* observations of one key that vary the about text, with and without an
\* experience; the partial ones carry the headline
AboutObs ==
    { Observation("alice", p, LinkedinUrlOf("alice"),
                  IF p THEN "Engineer" ELSE Absent, Absent, Absent, about,
                  ex, AbsentV, AbsentV, ObsTime) :
        p \in BOOLEAN, about \in {Absent, Null, "", "A", "B"},
        ex \in {AbsentV, Arr(<<"x">>)} }

\* the observations of a sync batch: one without the natural key, alice's
\* with and without linkedinUrl and scrapedAt, bob's complete ones; the
\* partial ones carry a headline, the full ones the experience
SyncObservation(key, p, u, s) ==
    Observation(key, p, u, IF p THEN "B" ELSE Absent, Absent, Absent, Absent,
                IF p THEN AbsentV ELSE Arr(<<"x">>), AbsentV,
                IF p THEN AbsentV ELSE Arr(<<>>), s)

SyncObs ==
    {SyncObservation(Absent, TRUE, Absent, ObsTime)}
    \cup {SyncObservation("alice", p, u, ObsTime) :
             p \in BOOLEAN, u \in {Absent, LinkedinUrlOf("alice")}}
    \cup {SyncObservation(k, p, LinkedinUrlOf(k), NoTime) :
             k \in {"alice"}, p \in BOOLEAN}
    \cup {SyncObservation("bob", p, LinkedinUrlOf("bob"), ObsTime) : p \in BOOLEAN}

\* the request bodies { profiles: [...] } of at most n items
BatchesUpTo(n) ==
    UNION {[1..m -> SyncObs] : m \in 0..n}

Batches == BatchesUpTo(MaxBatch)

-----------------------------------------------------------------------------
(* The state machine *)

NoStore == [k \in {} |-> {}]

\* what the last request was and what it answered
Served(op, batch, acc) ==
    [ n         |-> 1 - last.n,
      op        |-> op,
      batch     |-> batch,
      outcomes  |-> acc.outcomes,
      saved     |-> acc.saved,
      failed    |-> acc.failed,
      syncedIds |-> acc.syncedIds,
      threw     |-> acc.threw,
      prev      |-> IF op = "postProfile" THEN NoStore ELSE profiles,
      first     |-> IF op = "syncProfilesAgain" THEN last.outcomes ELSE <<>>,
      key       |-> Absent ]

\* the scalar fields a full observation that was saved carried a value for
PopulatedBy(profile) ==
    IF profile.isPartial THEN {}
    ELSE {f \in {"headline", "location"} : Truthy(profile[f])}

RECURSIVE NoteFull(_, _, _)
NoteFull(seen, batch, outcomes) ==
    IF batch = <<>> \/ outcomes = <<>> THEN seen
    ELSE LET o == Head(batch)
             s == IF Head(outcomes) = "saved"
                  THEN [seen EXCEPT ![o.publicIdentifier] = @ \cup PopulatedBy(o)]
                  ELSE seen
         IN NoteFull(s, Tail(batch), Tail(outcomes))

\* no request served yet
NotServed ==
    [n |-> 0, op |-> "init", batch |-> <<>>, outcomes |-> <<>>, saved |-> 0,
     failed |-> <<>>, syncedIds |-> <<>>, threw |-> FALSE, prev |-> NoStore,
     first |-> <<>>, key |-> Absent]

Clients == {"c1", "c2"}
Runs == {"r1", "r2"}

\* no request in flight
NoCall == [pc |-> "idle", key |-> Absent]
\* no processEnrichmentQueue() running
NoRun == [pc |-> "idle", key |-> Absent]

\* the callers of initializeCache(): the script's last line when it loads,
\* and the onInstalled / onStartup listeners
Inits == {"load", "event"}
\* a run of initializeCache(): data is what its storage read returns, saved
\* the keys saveProfile wrote to the cache since the read was issued
NoInit == [pc |-> "idle", data |-> [k \in {} |-> {}], saved |-> {}]

\* calls: POST /enrich/complete requests with success = false that found the
\* task; cycles: those of them that answered a hand-out made since the task
\* was enqueued; claimed: such a hand-out is not reported yet; handouts: the
\* hand-outs of the task since it was last enqueued
NoReports == [calls |-> 0, cycles |-> 0, claimed |-> FALSE, handouts |-> 0]

\* no post stored, no client waiting, the extension's script just loaded
InitOthers ==
    /\ posts = NoStore
    /\ calls = [c \in Clients |-> NoCall]
    /\ handed = [k \in Keys |-> <<>>]
    /\ reports = [k \in Keys |-> NoReports]
    /\ isEnrichmentRunning = FALSE
    /\ runs = [r \in Runs |-> NoRun]
    /\ profilesCache = NoStore
    /\ storage = NoStore
    /\ inits = [i \in Inits |-> NoInit]

\* the database initDatabase() creates
Init ==
    /\ InitOthers
    /\ profiles = NoStore
    /\ queue = NoStore
    /\ syncLog = <<>>
    /\ now = 1
    /\ last = NotServed
    /\ fullSeen = [k \in Keys |-> {}]

\* time passes
Tick ==
    /\ now < MaxClock
    /\ now' = now + 1
    /\ UNCHANGED <<posts, cacheVars, clientVars, extensionVars, profiles, queue, syncLog, last, fullSeen>>

\* POST /profiles: upsertProfile(body)
PostProfile(profile) ==
    LET acc == UncaughtLoop(EmptyResult(profiles), <<profile>>, now) IN
    /\ profiles' = acc.store
    /\ last' = Served("postProfile", <<profile>>, acc)
    /\ fullSeen' = NoteFull(fullSeen, <<profile>>, acc.outcomes)
    /\ UNCHANGED <<posts, cacheVars, clientVars, extensionVars, queue, syncLog, now>>

PostScalar == \E profile \in ScalarObs : PostProfile(profile)

PostDetail == \E profile \in DetailObs : PostProfile(profile)

NextScalar == PostScalar

SpecScalar == Init /\ [][NextScalar]_vars

PostAbout == \E profile \in AboutObs : PostProfile(profile)

NextAbout == PostAbout

SpecAbout == Init /\ [][NextAbout]_vars

NextDetail == PostDetail

SpecDetail == Init /\ [][NextDetail]_vars

\* POST /sync/profiles
SyncProfilesBody(batch, op) ==
    LET acc   == SyncProfilesLoop(EmptyResult(profiles), batch, now)
        log   == Append(syncLog, LogRecord("profiles", acc.saved, now))
    IN
    /\ profiles' = withTransaction(profiles, acc.store, FALSE)
    /\ syncLog' = withTransaction(syncLog, log, FALSE)
    /\ last' = Served(op, batch, acc)
    /\ fullSeen' = NoteFull(fullSeen, batch, acc.outcomes)
    /\ UNCHANGED <<posts, cacheVars, clientVars, extensionVars, queue, now>>

\* a client sends a batch of observations to POST /sync/profiles
SyncProfiles ==
    /\ last.op = "init"
    /\ \E batch \in Batches : SyncProfilesBody(batch, "syncProfiles")

\* the client sends the batch of the last request once more
SyncProfilesAgain ==
    /\ last.op = "syncProfiles"
    /\ SyncProfilesBody(last.batch, "syncProfilesAgain")

\* POST /sync/full: no try/catch and no transaction; a throw ends the
\* request before the sync_log insert
SyncFull ==
    /\ last.op = "init"
    /\ \E batch \in Batches :
         LET acc == UncaughtLoop(EmptyResult(profiles), batch, now) IN
         /\ profiles' = acc.store
         /\ syncLog' = IF acc.threw THEN syncLog
                       ELSE Append(syncLog, LogRecord("full", acc.saved, now))
         /\ last' = Served("syncFull", batch, acc)
         /\ fullSeen' = NoteFull(fullSeen, batch, acc.outcomes)
         /\ UNCHANGED <<posts, cacheVars, clientVars, extensionVars, queue, now>>

\* POST /profiles/bulk: profiles.map(p => upsertProfile(p))
PostBulk ==
    /\ last.op = "init"
    /\ \E batch \in Batches :
         LET acc == UncaughtLoop(EmptyResult(profiles), batch, now) IN
         /\ profiles' = acc.store
         /\ last' = Served("postBulk", batch, acc)
         /\ fullSeen' = NoteFull(fullSeen, batch, acc.outcomes)
         /\ UNCHANGED <<posts, cacheVars, clientVars, extensionVars, queue, syncLog, now>>

\* POST /profiles with an observation of a sync batch
PostOne ==
    /\ last.op = "init"
    /\ \E profile \in SyncObs : PostProfile(profile)

\* the tables an earlier sync request of at most one item left
InitSync ==
    /\ InitOthers
    /\ \E batch \in BatchesUpTo(1) :
          LET acc == SyncProfilesLoop(EmptyResult(NoStore), batch, 1) IN
          /\ profiles = acc.store
          /\ syncLog = IF batch = <<>> THEN <<>>
                       ELSE <<LogRecord("profiles", acc.saved, 1)>>
    /\ queue = NoStore
    /\ now = 1
    /\ last = NotServed
    /\ fullSeen = [k \in Keys |-> {}]

\* the tables as the database file holds them after the process died inside
\* withTransaction: the writes of a transaction that never committed are
\* discarded when the file is opened again
Uncommitted(before, after) == before

\* the process dies inside POST /sync/profiles, after the loop merged the
\* items of done (the head of the request's batch) and before the sync_log
\* insert
SyncProfilesCrash ==
    /\ last.op = "init"
    /\ \E done \in Batches :
         LET acc == SyncProfilesLoop(EmptyResult(profiles), done, now) IN
         /\ done # <<>>
         /\ profiles' = Uncommitted(profiles, acc.store)
         /\ syncLog' = Uncommitted(syncLog, syncLog)
         /\ last' = Served("syncProfilesCrash", done, acc)
         /\ UNCHANGED <<fullSeen, posts, cacheVars, clientVars, extensionVars, queue, now>>

NextCrash == SyncProfiles \/ SyncProfilesCrash

SpecCrash == InitSync /\ [][NextCrash]_vars

NextSync == Tick \/ SyncProfiles \/ SyncProfilesAgain

SpecSync == InitSync /\ [][NextSync]_vars

NextPaths == Tick \/ SyncProfiles \/ SyncFull \/ PostBulk \/ PostOne

SpecPaths == InitSync /\ [][NextPaths]_vars

-----------------------------------------------------------------------------
(* The enrichment queue handlers *)

BulkIds == {<<"alice", "bob">>, <<"bob", "bob">>}
Errors == {Absent, "timeout"}

\* what a queue request was and the key it answered with
QueueServed(op, key) ==
    [NotServed EXCEPT !.op = op, !.key = key]

\* POST /enrich/queue
EnrichQueue ==
    \E key \in Keys \cup {Absent} :
        /\ queue' = IF ~Truthy(key) THEN queue ELSE EnqueueKey(queue, key, now)
        /\ last' = QueueServed("enrichQueue", key)
        /\ UNCHANGED <<posts, cacheVars, clientVars, extensionVars, profiles, syncLog, now, fullSeen>>

\* POST /enrich/queue/bulk
EnrichQueueBulk ==
    \E ids \in BulkIds :
        /\ queue' = EnqueueAll(queue, ids, now)
        /\ last' = QueueServed("enrichQueueBulk", Absent)
        /\ UNCHANGED <<posts, cacheVars, clientVars, extensionVars, profiles, syncLog, now, fullSeen>>

\* GET /enrich/next
EnrichNext ==
    /\ IF Oldest(queue) = {}
       THEN /\ queue' = queue
            /\ last' = QueueServed("enrichNext", Absent)
       ELSE \E key \in Oldest(queue) :
               /\ queue' = [queue EXCEPT ![key] = ClaimTask(@, now)]
               /\ last' = QueueServed("enrichNext", key)
    /\ UNCHANGED <<posts, cacheVars, clientVars, extensionVars, profiles, syncLog, now, fullSeen>>

\* POST /enrich/complete
EnrichComplete ==
    \E key \in Keys, success \in BOOLEAN, error \in Errors :
        /\ queue' = CompleteKey(queue, key, success, error, now)
        /\ profiles' = IF success THEN MarkFull(profiles, key) ELSE profiles
        /\ last' = QueueServed(IF success THEN "enrichComplete" ELSE "enrichFailed", key)
        /\ UNCHANGED <<posts, cacheVars, clientVars, extensionVars, syncLog, now, fullSeen>>

\* DELETE /enrich/queue
EnrichClear ==
    /\ queue' = ClearTerminal(queue)
    /\ last' = QueueServed("enrichClear", Absent)
    /\ UNCHANGED <<posts, cacheVars, clientVars, extensionVars, profiles, syncLog, now, fullSeen>>

\* the tables after the extension saved one partial profile of alice
InitQueue ==
    /\ InitOthers
    /\ profiles = UncaughtLoop(EmptyResult(NoStore),
                     <<SyncObservation("alice", TRUE, LinkedinUrlOf("alice"),
                                       ObsTime)>>, 1).store
    /\ queue = NoStore
    /\ syncLog = <<>>
    /\ now = 1
    /\ last = NotServed
    /\ fullSeen = [k \in Keys |-> {}]

NextQueue ==
    Tick \/ EnrichQueue \/ EnrichQueueBulk \/ EnrichNext \/ EnrichComplete
         \/ EnrichClear

SpecQueue == InitQueue /\ [][NextQueue]_vars

-----------------------------------------------------------------------------
(* Concurrent dispatchers: clients of GET /enrich/next.  The handler has no  *)
(* await between its SELECT and its UPDATE, so the server runs it to         *)
(* completion between any two other requests.                                *)

\* the hand-outs of the tasks that are not pending after a queue statement
StillHanded(q, h) ==
    [k \in Keys |-> IF k \in DOMAIN q /\ q[k].status = "pending" THEN <<>> ELSE h[k]]

\* a client sends GET /enrich/next
CallNext(c) ==
    /\ calls[c].pc = "idle"
    /\ calls' = [calls EXCEPT ![c] = [pc |-> "sent", key |-> Absent]]
    /\ UNCHANGED <<profiles, queue, syncLog, now, last, fullSeen, posts, cacheVars, handed, reports, extensionVars>>

\* the server runs the handler of GET /enrich/next for the request of c
ServeNext(c) ==
    /\ calls[c].pc = "sent"
    /\ IF Oldest(queue) = {}
       THEN /\ queue' = queue
            /\ last' = QueueServed("enrichNext", Absent)
            /\ calls' = [calls EXCEPT ![c] = [pc |-> "answered", key |-> Absent]]
            /\ handed' = handed
            /\ reports' = reports
       ELSE \E key \in Oldest(queue) :
               /\ queue' = [queue EXCEPT ![key] = ClaimTask(@, now)]
               /\ last' = QueueServed("enrichNext", key)
               /\ calls' = [calls EXCEPT ![c] = [pc |-> "answered", key |-> key]]
               /\ handed' = [handed EXCEPT ![key] = Append(@, c)]
               /\ reports' = [reports EXCEPT ![key].claimed = TRUE,
                                              ![key].handouts = @ + 1]
    /\ UNCHANGED <<profiles, syncLog, now, fullSeen, posts, cacheVars, extensionVars>>

\* the client reads the response
ReceiveNext(c) ==
    /\ calls[c].pc = "answered"
    /\ calls' = [calls EXCEPT ![c] = NoCall]
    /\ UNCHANGED <<profiles, queue, syncLog, now, last, fullSeen, posts, cacheVars, handed, reports, extensionVars>>

\* the failure reports of a key after POST /enrich/complete found its task
Reported(q, key, success, r) ==
    IF key \notin DOMAIN q \/ success
    THEN [r EXCEPT ![key] = [NoReports EXCEPT !.handouts = r[key].handouts]]
    ELSE [r EXCEPT ![key] =
            [calls    |-> @.calls + 1,
             cycles   |-> IF @.claimed THEN @.cycles + 1 ELSE @.cycles,
             claimed  |-> FALSE,
             handouts |-> @.handouts]]

\* POST /enrich/complete while clients are calling
ReportComplete ==
    \E key \in Keys, success \in BOOLEAN :
        /\ success \/ reports[key].calls < MaxReports
        /\ queue' = CompleteKey(queue, key, success, Absent, now)
        /\ profiles' = IF success THEN MarkFull(profiles, key) ELSE profiles
        /\ last' = QueueServed(IF success THEN "enrichComplete" ELSE "enrichFailed", key)
        /\ handed' = StillHanded(queue', handed)
        /\ reports' = Reported(queue, key, success, reports)
        /\ UNCHANGED <<syncLog, now, fullSeen, posts, cacheVars, calls, extensionVars>>

\* POST /enrich/queue while clients are calling
Requeue ==
    \E key \in Keys :
        /\ queue' = EnqueueKey(queue, key, now)
        /\ last' = QueueServed("enrichQueue", key)
        /\ handed' = StillHanded(queue', handed)
        /\ reports' = [reports EXCEPT ![key] = NoReports]
        /\ UNCHANGED <<profiles, syncLog, now, fullSeen, posts, cacheVars, calls, extensionVars>>

NextClaim ==
    \/ Requeue
    \/ ReportComplete
    \/ \E c \in Clients : CallNext(c)
    \/ \E c \in Clients : ServeNext(c)
    \/ \E c \in Clients : ReceiveNext(c)

SpecClaim == Init /\ [][NextClaim]_vars

-----------------------------------------------------------------------------
(* The extension's enrichment dispatcher: processEnrichmentQueue(), started  *)
(* by the enrichment-check alarm.  Between two awaits a run is one step.     *)

\* the positions of a run that is past the isEnrichmentRunning guard
Inside ==
    {"fetchNext", "createTab", "markFailed", "wait1", "scrape", "wait2",
     "sync", "removeTab", "markDone"}

\* a finally block that is skipped when the run throws
FlagAtExitUnlessThrown(path) == path = "throw"

\* finally { isEnrichmentRunning = false }, on a return and on a throw
FlagAtExit(path) == FALSE

\* the run leaves processEnrichmentQueue() by a return or a caught throw
Exit(r, path) ==
    /\ runs' = [runs EXCEPT ![r] = NoRun]
    /\ isEnrichmentRunning' = FlagAtExit(path)

\* the run moves on to its next await
Goto(r, pc, key) ==
    /\ runs' = [runs EXCEPT ![r] = [pc |-> pc, key |-> key]]
    /\ UNCHANGED isEnrichmentRunning

\* the alarm fires: the guard, the flag and the fetch are one synchronous step
AlarmFires(r) ==
    /\ runs[r].pc \in {"idle", "skipped"}
    /\ IF isEnrichmentRunning
       THEN /\ runs' = [runs EXCEPT ![r] = [pc |-> "skipped", key |-> Absent]]
            /\ UNCHANGED isEnrichmentRunning
       ELSE /\ runs' = [runs EXCEPT ![r] = [pc |-> "fetchNext", key |-> Absent]]
            /\ isEnrichmentRunning' = TRUE
    /\ UNCHANGED <<profiles, queue, syncLog, now, last, fullSeen, posts, cacheVars, clientVars>>

\* fetch(/enrich/next) settles: served, answered with an error status, or
\* rejected (before or after the server handled the request)
NextSettles(r) ==
    /\ runs[r].pc = "fetchNext"
    /\ \E outcome \in {"ok", "notOk", "lost", "refused"} :
         IF outcome \in {"notOk", "refused"}
         THEN /\ Exit(r, IF outcome = "notOk" THEN "return" ELSE "throw")
              /\ UNCHANGED <<queue, last>>
         ELSE IF Oldest(queue) = {}
         THEN /\ Exit(r, IF outcome = "ok" THEN "return" ELSE "throw")
              /\ queue' = queue
              /\ last' = QueueServed("enrichNext", Absent)
         ELSE \E key \in Oldest(queue) :
                 /\ queue' = [queue EXCEPT ![key] = ClaimTask(@, now)]
                 /\ last' = QueueServed("enrichNext", key)
                 /\ IF outcome = "ok" THEN Goto(r, "createTab", key)
                                      ELSE Exit(r, "throw")
    /\ UNCHANGED <<profiles, syncLog, now, fullSeen, posts, cacheVars, clientVars>>

\* chrome.tabs.create settles: a tab, a tab without id, or a rejection
TabSettles(r) ==
    /\ runs[r].pc = "createTab"
    /\ \/ Goto(r, "wait1", runs[r].key)
       \/ Goto(r, "markFailed", runs[r].key)
       \/ Exit(r, "throw")
    /\ UNCHANGED <<profiles, queue, syncLog, now, last, fullSeen, posts, cacheVars, clientVars>>

\* markEnrichmentComplete settles; it catches a failing fetch itself
MarkSettles(r, pc, success, error) ==
    /\ runs[r].pc = pc
    /\ Exit(r, "return")
    /\ \E delivered \in BOOLEAN :
         IF delivered
         THEN /\ queue' = CompleteKey(queue, runs[r].key, success, error, now)
              /\ profiles' = IF success THEN MarkFull(profiles, runs[r].key)
                             ELSE profiles
              /\ last' = QueueServed(IF success THEN "enrichComplete"
                                     ELSE "enrichFailed", runs[r].key)
         ELSE UNCHANGED <<queue, profiles, last>>
    /\ UNCHANGED <<syncLog, now, fullSeen, posts, cacheVars, clientVars>>

MarkFailedSettles(r) == MarkSettles(r, "markFailed", FALSE, "Failed to create tab")

MarkDoneSettles(r) == MarkSettles(r, "markDone", TRUE, Absent)

\* a timer, chrome.tabs.sendMessage or chrome.tabs.remove settles; their
\* rejections are caught in place
Proceeds(r) ==
    /\ \E step \in {<<"wait1", "scrape">>, <<"scrape", "wait2">>,
                    <<"wait2", "sync">>, <<"removeTab", "markDone">>} :
          /\ runs[r].pc = step[1]
          /\ Goto(r, step[2], runs[r].key)
    /\ UNCHANGED <<profiles, queue, syncLog, now, last, fullSeen, posts, cacheVars, clientVars>>

\* what the profile cache holds for the key when syncToServer() reads it
Cached(key) ==
    {<<>>} \cup {<<SyncObservation(key, p, LinkedinUrlOf(key), ObsTime)>> : p \in BOOLEAN}

\* syncToServer() settles; it never throws
SyncSettles(r) ==
    /\ runs[r].pc = "sync"
    /\ Goto(r, "removeTab", runs[r].key)
    /\ \E batch \in Cached(runs[r].key) :
         IF batch = <<>>
         THEN UNCHANGED <<profiles, syncLog, last, fullSeen>>
         ELSE LET acc == SyncProfilesLoop(EmptyResult(profiles), batch, now) IN
              /\ profiles' = withTransaction(profiles, acc.store, FALSE)
              /\ syncLog' = withTransaction(syncLog,
                               Append(syncLog, LogRecord("profiles", acc.saved, now)),
                               FALSE)
              /\ last' = Served("syncProfiles", batch, acc)
              /\ fullSeen' = NoteFull(fullSeen, batch, acc.outcomes)
    /\ UNCHANGED <<queue, now, posts, cacheVars, clientVars>>

\* POST /enrich/queue for a key not queued yet, while the dispatcher runs
QueueForRun ==
    /\ \E key \in Keys :
         /\ key \notin DOMAIN queue
         /\ queue' = EnqueueKey(queue, key, now)
         /\ last' = QueueServed("enrichQueue", key)
    /\ UNCHANGED <<profiles, syncLog, now, fullSeen, posts, cacheVars, clientVars, extensionVars>>

NextAlarm ==
    \/ QueueForRun
    \/ \E r \in Runs : AlarmFires(r)
    \/ \E r \in Runs : NextSettles(r)
    \/ \E r \in Runs : TabSettles(r)
    \/ \E r \in Runs : MarkFailedSettles(r)
    \/ \E r \in Runs : Proceeds(r)
    \/ \E r \in Runs : SyncSettles(r)
    \/ \E r \in Runs : MarkDoneSettles(r)

SpecAlarm == Init /\ [][NextAlarm]_vars

\* a step of run r after its guard: one of its awaits settles
Settles(r) ==
    \/ NextSettles(r) \/ TabSettles(r) \/ MarkFailedSettles(r)
    \/ Proceeds(r) \/ SyncSettles(r) \/ MarkDoneSettles(r)

\* the alarm keeps firing every period (chrome.alarms, periodInMinutes) and
\* every pending promise of a run settles
FairAlarm ==
    /\ WF_vars(\E r \in Runs : AlarmFires(r))
    /\ \A r \in Runs : WF_vars(Settles(r))

SpecAlarmFair == SpecAlarm /\ FairAlarm

-----------------------------------------------------------------------------
(* Observations synced while tasks are queued: the user visits a profile     *)
(* page, the extension caches the scrape and syncToServer posts it to        *)
(* POST /sync/profiles, next to the requests of the enrichment queue.        *)

\* POST /sync/profiles with the one observation of the page visited
VisitSync ==
    /\ Len(syncLog) < MaxSyncs
    /\ \E key \in Keys, p \in BOOLEAN :
         SyncProfilesBody(<<SyncObservation(key, p, LinkedinUrlOf(key), ObsTime)>>, "syncProfiles")

NextRetire == QueueForRun \/ VisitSync \/ EnrichNext \/ EnrichComplete

SpecRetire == InitQueue /\ [][NextRetire]_vars

-----------------------------------------------------------------------------
(* The text deduplication filter and the startup backfill.  A text is the    *)
(* sequence of its characters; a one-element sequence holding Null or Absent *)
(* stands for null or undefined, so that every text value is a sequence.     *)

Alphabet == {"a", "b", " "}
NullText == <<Null>>
AbsentText == <<Absent>>

TextsUpTo(n) == UNION {[1..m -> Alphabet] : m \in 0..n}
Texts == TextsUpTo(MaxText)

\* String.prototype.trim
RECURSIVE trim(_)
trim(text) ==
    IF text = <<>> THEN text
    ELSE IF Head(text) = " " THEN trim(Tail(text))
    ELSE IF text[Len(text)] = " " THEN trim(SubSeq(text, 1, Len(text) - 1))
    ELSE text

\* text.slice(from, to), 0-based and end-exclusive
slice(text, from, to) == SubSeq(text, from + 1, to)

\* deduplicateString of db/index.ts
deduplicateString(text) ==
    IF text = NullText \/ text = <<>> THEN <<>>
    ELSE LET trimmed == trim(text)
             len     == Len(trimmed)
             half    == len \div 2
             first   == slice(trimmed, 0, half)
             second  == slice(trimmed, half, len)
         IN IF len < 2 \/ len % 2 # 0 THEN trimmed
            ELSE IF first = second THEN first ELSE trimmed

\* deduplicateText of routes/sync.ts
deduplicateText(text) ==
    IF text \in {NullText, AbsentText} \/ text = <<>> THEN <<>>
    ELSE LET trimmed == trim(text)
             len     == Len(trimmed)
             half    == len \div 2
             first   == slice(trimmed, 0, half)
             second  == slice(trimmed, half, len)
         IN IF len < 2 \/ len % 2 # 0 THEN trimmed
            ELSE IF first = second THEN first ELSE trimmed

\* the first loop of cleanupDuplicatedText, for one row of posts
CleanPost(post) ==
    LET cleanName     == deduplicateString(post.author_name)
        cleanHeadline == deduplicateString(post.author_headline)
    IN IF cleanName # post.author_name \/ cleanHeadline # post.author_headline
       THEN [post EXCEPT !.author_name = cleanName, !.author_headline = cleanHeadline]
       ELSE post

\* the second loop, for one row of profiles: full_name is NULL in every row
\* of this model, so the row is rewritten once; none of the headlines of the
\* profile inputs is a doubled text, so cleaning a headline only turns NULL
\* into ''
CleanProfile(row) == [row EXCEPT !.headline = IF @ = Null THEN "" ELSE @]

\* the server starts: initDatabase() runs cleanupDuplicatedText()
Restart ==
    /\ posts' = [id \in DOMAIN posts |-> CleanPost(posts[id])]
    /\ profiles' = [k \in DOMAIN profiles |-> CleanProfile(profiles[k])]
    /\ last' = [NotServed EXCEPT !.op = "restart"]
    /\ UNCHANGED <<queue, syncLog, now, fullSeen, clientVars, extensionVars, cacheVars>>

\* a posts table with one row stored before the filter was in place
InitDedup ==
    /\ \E name \in Texts \cup {NullText}, headline \in {NullText, <<"a", "a">>} :
          posts = [id \in {"p1"} |-> [author_name |-> name, author_headline |-> headline]]
    /\ profiles = NoStore
    /\ queue = NoStore
    /\ syncLog = <<>>
    /\ now = 1
    /\ last = NotServed
    /\ fullSeen = [k \in Keys |-> {}]
    /\ calls = [c \in Clients |-> NoCall]
    /\ handed = [k \in Keys |-> <<>>]
    /\ reports = [k \in Keys |-> NoReports]
    /\ isEnrichmentRunning = FALSE
    /\ runs = [r \in Runs |-> NoRun]
    /\ profilesCache = NoStore
    /\ storage = NoStore
    /\ inits = [i \in Inits |-> NoInit]

NextDedup == Restart

SpecDedup == InitDedup /\ [][NextDedup]_vars

-----------------------------------------------------------------------------
(* The extension's profile cache: the Map profilesCache of the background    *)
(* script and its copy in chrome.storage.local.  chrome.storage serves its   *)
(* requests in the order they are issued, so a read returns the store as it  *)
(* was when the read was issued, and a write is in the store for every       *)
(* request issued after it.                                                  *)

\* profilesCache.get(key) of a key the Map does not hold: undefined
NoEntry ==
    [ publicIdentifier |-> Absent, id |-> Absent, linkedinUrl |-> Absent,
      isPartial |-> Absent, headline |-> Absent, location |-> Absent,
      connectedAt |-> Absent, about |-> Absent, experience |-> AbsentV,
      education |-> AbsentV, skills |-> AbsentV, scrapedAt |-> NoTime ]

Existing(cache, key) == IF key \in DOMAIN cache THEN cache[key] ELSE NoEntry

\* profile.isPartial && existing?.experience ? existing.experience
\*                                           : profile.experience || null
CacheDetail(partial, old, new) ==
    IF partial /\ TruthyV(old) THEN old
    ELSE IF TruthyV(new) THEN new ELSE NullV

\* profile.isPartial && existing?.about ? existing.about : profile.about || null
CacheAbout(partial, old, new) ==
    IF partial /\ Truthy(old) THEN old ELSE OrElse(new, Null)

\* the object merged of saveProfile, its generated id included; every
\* observation of the scrapers carries isPartial
CacheMerged(existing, profile, t) ==
    [ publicIdentifier |-> profile.publicIdentifier,
      id               |-> IF Truthy(Spread(existing.id, profile.id))
                           THEN Spread(existing.id, profile.id)
                           ELSE generateId(profile.publicIdentifier),
      linkedinUrl      |-> Spread(existing.linkedinUrl, profile.linkedinUrl),
      isPartial        |-> profile.isPartial,
      headline         |-> Spread(existing.headline, profile.headline),
      location         |-> Spread(existing.location, profile.location),
      connectedAt      |-> Spread(existing.connectedAt, profile.connectedAt),
      about            |-> CacheAbout(profile.isPartial, existing.about, profile.about),
      experience       |-> CacheDetail(profile.isPartial, existing.experience, profile.experience),
      education        |-> CacheDetail(profile.isPartial, existing.education, profile.education),
      skills           |-> CacheDetail(profile.isPartial, existing.skills, profile.skills),
      scrapedAt        |-> IF profile.scrapedAt # NoTime THEN profile.scrapedAt ELSE t ]

\* profilesCache.set(key, value)
CacheSet(cache, key, value) ==
    [k \in DOMAIN cache \cup {key} |-> IF k = key THEN value ELSE cache[k]]

\* Object.entries(profiles).forEach(([key, profile]) => profilesCache.set(key, profile))
CacheLoad(cache, data) ==
    [k \in DOMAIN cache \cup DOMAIN data |-> IF k \in DOMAIN data THEN data[k] ELSE cache[k]]

\* the profiles the content scripts hand to saveProfile
CacheObs ==
    { Observation("alice", p, LinkedinUrlOf("alice"), Absent, Absent, Absent, about, ex, AbsentV, AbsentV, ObsTime) :
        p \in BOOLEAN, about \in {Absent, "A"}, ex \in {AbsentV, Arr(<<>>), Arr(<<"x">>)} }
    \cup { Observation(Absent, TRUE, Absent, Absent, Absent, Absent, Absent, AbsentV, AbsentV, AbsentV, ObsTime) }

\* the cache requests leave their mark in last
CacheServed(op, key, batch) ==
    [NotServed EXCEPT !.n = 1 - last.n, !.op = op, !.key = key, !.batch = batch]

\* saveProfile(profile), up to the write it issues to chrome.storage.local
SaveProfile ==
    /\ \E profile \in CacheObs :
         LET key    == profile.publicIdentifier
             merged == CacheMerged(Existing(profilesCache, key), profile, now)
         IN
         /\ last' = CacheServed("saveProfile", key, <<profile>>)
         /\ IF ~Truthy(key)
            THEN UNCHANGED cacheVars
            ELSE /\ profilesCache' = CacheSet(profilesCache, key, merged)
                 /\ storage' = profilesCache'
                 /\ inits' = [i \in Inits |->
                                IF inits[i].pc = "reading"
                                THEN [inits[i] EXCEPT !.saved = @ \cup {key}]
                                ELSE inits[i]]
    /\ UNCHANGED <<profiles, queue, syncLog, now, fullSeen, posts, clientVars, extensionVars>>

\* the background script is loaded (the service worker starts): its Maps are
\* empty, the runs of the script that ran before are gone, and its last
\* line calls initializeCache(), which issues its storage read
ScriptLoads ==
    /\ profilesCache' = NoStore
    /\ inits' = [i \in Inits |->
                   IF i = "load" THEN [pc |-> "reading", data |-> storage, saved |-> {}]
                   ELSE NoInit]
    /\ UNCHANGED <<storage, profiles, queue, syncLog, now, last, fullSeen, posts, clientVars, extensionVars>>

\* onInstalled or onStartup fires: initializeCache() issues its storage read
EventFires ==
    /\ inits["event"].pc = "idle"
    /\ inits' = [inits EXCEPT !["event"] = [pc |-> "reading", data |-> storage, saved |-> {}]]
    /\ UNCHANGED <<profilesCache, storage, profiles, queue, syncLog, now, last, fullSeen, posts, clientVars, extensionVars>>

\* the storage read of a run of initializeCache() settles and the run copies
\* what it read into the Map
InitResumes(i) ==
    /\ inits[i].pc = "reading"
    /\ profilesCache' = CacheLoad(profilesCache, inits[i].data)
    /\ inits' = [inits EXCEPT ![i] = NoInit]
    /\ last' = CacheServed("initializeCache", i, <<>>)
    /\ UNCHANGED <<storage, profiles, queue, syncLog, now, fullSeen, posts, clientVars, extensionVars>>

NextCache ==
    \/ SaveProfile
    \/ ScriptLoads
    \/ EventFires
    \/ \E i \in Inits : InitResumes(i)

SpecCache == Init /\ [][NextCache]_vars

-----------------------------------------------------------------------------
(* POST /sync/posts and the texts that reach upsertProfile.  The headline of *)
(* a profile is a string; Characters and Join convert between a string and   *)
(* the sequence of its characters.                                           *)

RECURSIVE Join(_)
Join(text) == IF text = <<>> THEN "" ELSE Head(text) \o Join(Tail(text))

Characters(string) == CHOOSE text \in Texts : Join(text) = string

\* the columns CREATE TABLE posts declares
PostsColumns ==
    {"id", "author_profile_id", "author_public_identifier", "author_name",
     "author_headline", "author_profile_picture_url", "content", "post_url",
     "likes_count", "comments_count", "reposts_count", "has_image", "has_video",
     "has_document", "image_urls", "posted_at", "scraped_at", "created_at"}

\* the columns the INSERT INTO posts of POST /sync/posts names
InsertColumns ==
    {"id", "author_profile_id", "author_public_identifier", "author_name",
     "author_headline", "author_profile_picture_url", "content", "post_url",
     "post_type", "likes_count", "comments_count", "reposts_count", "has_image",
     "has_video", "has_document", "has_link", "has_poll", "image_urls",
     "video_url", "shared_link", "is_repost", "original_author_name",
     "original_author_identifier", "hashtags", "mentions", "posted_at",
     "scraped_at"}

\* db.prepare throws on a column the table does not have
PrepareThrows == InsertColumns \ PostsColumns # {}

\* the posts a request body of POST /sync/posts carries
PostInputs ==
    [ id : {"p1"},
      authorPublicIdentifier : {Absent, "bob"},
      authorName : {AbsentText, <<"a", "a">>},
      authorHeadline : {AbsentText, <<"a", "b">>, <<"a", "a">>, <<"a", "a", "a", "a">>} ]

\* the stub upsertProfile({ publicIdentifier, linkedinUrl, ..., headline:
\* cleanHeadline, scrapedAt: new Date(), isPartial: true })
StubProfile(key, cleanHeadline, t) ==
    Observation(key, TRUE, LinkedinUrlOf(key), Join(cleanHeadline), Absent, Absent, Absent, AbsentV, AbsentV, AbsentV, t)

\* INSERT INTO posts ... ON CONFLICT(id) DO UPDATE SET author_name =
\* excluded.author_name, author_headline = excluded.author_headline, ...
UpsertPost(table, id, cleanName, cleanHeadline) ==
    [k \in DOMAIN table \cup {id} |->
        IF k = id THEN [author_name |-> cleanName, author_headline |-> cleanHeadline]
        ELSE table[k]]

EmptyPostsResult(store, table) ==
    [store |-> store, posts |-> table, saved |-> 0, failed |-> <<>>,
     syncedIds |-> <<>>, profilesCreated |-> 0]

\* one iteration of the loop of POST /sync/posts
SyncPostItem(acc, post, t) ==
    LET cleanName     == deduplicateText(post.authorName)
        cleanHeadline == deduplicateText(post.authorHeadline)
        key           == post.authorPublicIdentifier
        needsStub     == Truthy(key) /\ key \notin DOMAIN acc.store
        r             == upsertProfile(acc.store, StubProfile(key, cleanHeadline, t), t)
        stubbed       == IF ~needsStub \/ r.outcome = "threw" THEN acc
                         ELSE [acc EXCEPT !.store = r.store,
                                          !.profilesCreated = @ + 1]
    IN IF PrepareThrows \/ ~Truthy(key)
       THEN [stubbed EXCEPT !.failed = Append(@, Failure(post.id, "SqliteError"))]
       ELSE [stubbed EXCEPT
               !.posts = UpsertPost(@, post.id, cleanName, cleanHeadline),
               !.saved = @ + 1,
               !.syncedIds = Append(@, post.id)]

RECURSIVE SyncPostsLoop(_, _, _)
SyncPostsLoop(acc, batch, t) ==
    IF batch = <<>> THEN acc
    ELSE SyncPostsLoop(SyncPostItem(acc, Head(batch), t), Tail(batch), t)

\* POST /sync/posts
SyncPosts ==
    /\ Len(syncLog) < MaxSyncs
    /\ \E post \in PostInputs :
         LET acc == SyncPostsLoop(EmptyPostsResult(profiles, posts), <<post>>, now) IN
         /\ profiles' = withTransaction(profiles, acc.store, FALSE)
         /\ posts' = withTransaction(posts, acc.posts, FALSE)
         /\ syncLog' = withTransaction(syncLog,
                          Append(syncLog, LogRecord("posts", acc.saved, now)), FALSE)
         /\ last' = [NotServed EXCEPT !.n = 1 - last.n, !.op = "syncPosts",
                                      !.saved = acc.saved, !.failed = acc.failed,
                                      !.syncedIds = acc.syncedIds]
    /\ UNCHANGED <<queue, now, fullSeen, clientVars, extensionVars, cacheVars>>

\* observations whose headline is a text the scraper read twice over, or not
TextObs ==
    { Observation(key, p, LinkedinUrlOf(key), h, Absent, Absent, Absent, AbsentV, AbsentV, AbsentV, ObsTime) :
        key \in Keys, p \in BOOLEAN, h \in {Absent, "ab", "aa"} }

\* POST /sync/profiles with one such observation
SyncTexts ==
    /\ Len(syncLog) < MaxSyncs
    /\ \E profile \in TextObs : SyncProfilesBody(<<profile>>, "syncProfiles")

NextFilter == SyncTexts \/ SyncPosts

SpecFilter == Init /\ [][NextFilter]_vars

-----------------------------------------------------------------------------
(* Properties of upsertProfile, over the requests POST /profiles serves *)

DetailFields == {"experience", "education", "skills"}
ScalarFields == {"headline", "location"}

\* this step served an upsert of one observation and stored it
Upserted == last'.op = "postProfile" /\ last'.outcomes = <<"saved">>
\* the observation of the request this step served
Incoming == last'.batch[1]
\* the state is the one right after a stored upsert
JustUpserted == last.op = "postProfile" /\ last.outcomes = <<"saved">>
\* an incoming property that carries a value
Provided(v) == v \notin {Absent, Null}
\* what a full observation's collection reads back as
AsStored(v) == IF TruthyV(v) THEN v ELSE NullV

\* C1: the completeness flag becomes full when a full observation is merged
\* and never goes back from full to partial.
C1_CompletenessMonotonic ==
    [][ \A k \in DOMAIN profiles :
          /\ k \in DOMAIN profiles'
          /\ profiles[k].is_partial = 0 => profiles'[k].is_partial = 0
          /\ (Upserted /\ ~Incoming.isPartial /\ Incoming.publicIdentifier = k)
                => profiles'[k].is_partial = 0 ]_vars

C1_Witness ==
    /\ JustUpserted /\ last.batch[1].isPartial
    /\ "alice" \in DOMAIN profiles /\ profiles["alice"].is_partial = 0

\* C2: a partial upsert leaves every non-null experience, education and
\* skills column of the stored row exactly as it was.
C2_PartialKeepsCollections ==
    [][ (Upserted /\ Incoming.isPartial) =>
          \A k \in DOMAIN profiles : \A f \in DetailFields :
             profiles[k][f] # Null => profiles'[k][f] = profiles[k][f] ]_vars

C2_Witness ==
    /\ JustUpserted /\ last.batch[1].isPartial
    /\ last.batch[1].experience = Arr(<<>>)
    /\ last.batch[1].skills = AbsentV
    /\ profiles["alice"].experience = "[x]"
    /\ profiles["alice"].skills = "[]"

\* C3: a full upsert into an existing row replaces the three collections by
\* the incoming ones (an incoming empty list reads back as the empty list, an
\* absent one as null), makes the row full and keeps a headline it does not
\* carry.
C3_FullReplacesCollections ==
    [][ (Upserted /\ ~Incoming.isPartial /\ Incoming.publicIdentifier \in DOMAIN profiles) =>
          LET k == Incoming.publicIdentifier
              e == rowToProfile(profiles'[k])
          IN /\ \A f \in DetailFields : e[f] = AsStored(Incoming[f])
             /\ ~e.isPartial
             /\ ~Provided(Incoming.headline) =>
                    e.headline = rowToProfile(profiles[k]).headline ]_vars

C3_Witness ==
    /\ JustUpserted /\ ~last.batch[1].isPartial
    /\ last.batch[1].skills = Arr(<<>>)
    /\ last.batch[1].experience = Arr(<<"x">>)
    /\ LET e == rowToProfile(profiles["alice"]) IN
         /\ ~e.isPartial
         /\ e.headline = "Engineer"
         /\ e.skills = Arr(<<>>)
         /\ e.experience = Arr(<<"x">>)

-----------------------------------------------------------------------------
(* Properties of the profile sync handlers *)

HasKey(profile) == Truthy(profile.publicIdentifier)
CarriesTime(profile) == profile.scrapedAt # NoTime
Indexes(seq) == 1..Len(seq)

\* two tables hold the same profiles as read back (updated_at is not read)
SameEntities(a, b) ==
    /\ DOMAIN a = DOMAIN b
    /\ \A k \in DOMAIN a : rowToProfile(a[k]) = rowToProfile(b[k])

\* the failed list the outcomes call for
RECURSIVE FailuresOf(_, _)
FailuresOf(batch, outcomes) ==
    IF outcomes = <<>> THEN <<>>
    ELSE LET rest == FailuresOf(Tail(batch), Tail(outcomes)) IN
         CASE Head(outcomes) = "rejected" ->
                <<Failure("unknown", "Missing publicIdentifier")>> \o rest
           [] Head(outcomes) = "threw" ->
                <<Failure(Head(batch).publicIdentifier, "SqliteError")>> \o rest
           [] OTHER -> rest

\* the items of the batch that were saved, in order
RECURSIVE SavedOf(_, _)
SavedOf(batch, outcomes) ==
    IF outcomes = <<>> THEN <<>>
    ELSE (IF Head(outcomes) = "saved" THEN <<Head(batch)>> ELSE <<>>)
         \o SavedOf(Tail(batch), Tail(outcomes))

KeysOf(batch) == [i \in Indexes(batch) |-> batch[i].publicIdentifier]

C7_FaultIsolation ==
    [][ (last' # last /\ last'.op \in {"syncProfiles", "syncProfilesAgain"}) =>
          /\ Len(last'.outcomes) = Len(last'.batch)
          /\ \A i \in Indexes(last'.batch) :
                /\ ~HasKey(last'.batch[i]) => last'.outcomes[i] = "rejected"
                /\ last'.outcomes[i] = "saved" =>
                      last'.batch[i].publicIdentifier \in DOMAIN profiles'
          /\ last'.failed = FailuresOf(last'.batch, last'.outcomes)
          /\ LET alone == UncaughtLoop(EmptyResult(profiles),
                                       SavedOf(last'.batch, last'.outcomes), now)
             IN ~alone.threw /\ alone.store = profiles' ]_vars

C7_Witness ==
    /\ last.op = "syncProfiles"
    /\ Len(last.batch) = 3
    /\ ~HasKey(last.batch[2])
    /\ last.saved = 2
    /\ last.failed = <<Failure("unknown", "Missing publicIdentifier")>>
    /\ last.prev = NoStore
    /\ DOMAIN profiles = {"alice", "bob"}
    /\ last.batch[1].publicIdentifier = "alice"
    /\ last.batch[3].publicIdentifier = "bob"

\* C8: on every path an observation without publicIdentifier gets no entity
\* from upsertProfile and writes nothing: the request leaves the table as
\* the same request without those observations does.
C8_MissingKeyRejected ==
    [][ (last' # last /\ last'.op \in {"syncProfiles", "syncFull", "postBulk",
                                       "postProfile"}) =>
          LET batch == last'.batch
              keyed == SelectSeq(batch, HasKey)
              alone == IF last'.op = "syncProfiles"
                       THEN SyncProfilesLoop(EmptyResult(profiles), keyed, now)
                       ELSE UncaughtLoop(EmptyResult(profiles), keyed, now)
          IN /\ \A i \in Indexes(last'.outcomes) :
                   ~HasKey(batch[i]) => last'.outcomes[i] \in {"null", "rejected"}
             /\ \A i \in Indexes(batch) :
                   ~HasKey(batch[i]) =>
                      LET r == upsertProfile(profiles, batch[i], now) IN
                      r.entity = NullV /\ r.store = profiles
             /\ profiles' = alone.store
             /\ last'.saved = alone.saved ]_vars

C8_Witness ==
    /\ last.op = "syncFull"
    /\ Len(last.batch) = 3
    /\ ~HasKey(last.batch[2])
    /\ last.outcomes = <<"saved", "null", "saved">>
    /\ last.prev = NoStore
    /\ DOMAIN profiles = {"alice", "bob"}

IsPrefix(s, t) == Len(s) <= Len(t) /\ SubSeq(t, 1, Len(s)) = s

\* C9: POST /sync/profiles accounts for every item exactly once, in
\* syncedIds or in failed; saved counts syncedIds; saved plus failed is the
\* batch length; one sync_log record with count = saved is appended and no
\* record is ever changed.
C9_BatchAccounting ==
    [][ /\ IsPrefix(syncLog, syncLog')
        /\ (last' # last /\ last'.op \in {"syncProfiles", "syncProfilesAgain"}) =>
             /\ Len(last'.outcomes) = Len(last'.batch)
             /\ \A i \in Indexes(last'.outcomes) :
                   last'.outcomes[i] \in {"saved", "rejected", "threw"}
             /\ last'.syncedIds = KeysOf(SavedOf(last'.batch, last'.outcomes))
             /\ last'.failed = FailuresOf(last'.batch, last'.outcomes)
             /\ last'.saved = Len(last'.syncedIds)
             /\ last'.saved + Len(last'.failed) = Len(last'.batch)
             /\ Len(syncLog') = Len(syncLog) + 1
             /\ syncLog'[Len(syncLog')].type = "profiles"
             /\ syncLog'[Len(syncLog')].count = last'.saved ]_vars

C9_Witness ==
    /\ last.op = "syncProfiles"
    /\ last.outcomes = <<"threw", "saved", "rejected">>
    /\ last.saved = 1
    /\ Len(last.failed) = 2
    /\ Len(syncLog) = 2
    /\ syncLog[2].count = 1

-----------------------------------------------------------------------------
(* Properties of the enrichment queue *)

PendingUnderLimit(q) ==
    {k \in DOMAIN q : q[k].status = "pending" /\ q[k].attempts < MAX_ATTEMPTS}

\* C10: GET /enrich/next answers with a pending task of attempts < 3 whose
\* queued_at no other such task precedes, and leaves it processing with
\* started_at stamped and attempts one higher, every other field and task
\* unchanged; when there is no such task it answers none and changes nothing.
C10_ClaimNext ==
    [][ (last' # last /\ last'.op = "enrichNext") =>
          LET key == last'.key IN
          IF PendingUnderLimit(queue) = {}
          THEN key = Absent /\ queue' = queue /\ profiles' = profiles
          ELSE /\ key \in PendingUnderLimit(queue)
               /\ \A j \in PendingUnderLimit(queue) :
                     queue[key].queued_at <= queue[j].queued_at
               /\ queue'[key].status = "processing"
               /\ queue'[key].started_at = now
               /\ queue'[key].attempts = queue[key].attempts + 1
               /\ \A f \in DOMAIN queue[key] \ {"status", "started_at", "attempts"} :
                     queue'[key][f] = queue[key][f]
               /\ DOMAIN queue' = DOMAIN queue
               /\ \A j \in DOMAIN queue \ {key} : queue'[j] = queue[j]
               /\ profiles' = profiles ]_vars

C10_Witness ==
    /\ last.op = "enrichNext"
    /\ last.key = "alice"
    /\ DOMAIN queue = {"alice", "bob"}
    /\ queue["alice"].status = "processing"
    /\ queue["alice"].attempts = 2
    /\ queue["alice"].started_at = now
    /\ queue["bob"].status = "pending"
    /\ queue["bob"].attempts = 0
    /\ queue["alice"].queued_at < queue["bob"].queued_at

-----------------------------------------------------------------------------
(* Properties of concurrent GET /enrich/next calls *)

\* the step hands the task of key k to a client
HandsOut(k) == Len(handed'[k]) = Len(handed[k]) + 1

\* C11: whatever the interleaving of the clients' GET /enrich/next calls, a
\* task is handed out at most once until POST /enrich/complete with a
\* failure or POST /enrich/queue puts it back to pending; each hand-out takes
\* a pending task and adds exactly 1 to its attempts, and nothing else
\* raises attempts.
C11_ClaimedByOne ==
    [][ \A k \in Keys :
          /\ Len(handed'[k]) <= 1
          /\ HandsOut(k) =>
                /\ queue[k].status = "pending"
                /\ queue'[k].status = "processing"
                /\ queue'[k].attempts = queue[k].attempts + 1
          /\ (k \in DOMAIN queue /\ k \in DOMAIN queue'
                /\ queue'[k].attempts > queue[k].attempts) => HandsOut(k) ]_vars

C11_Witness ==
    /\ calls["c1"] = [pc |-> "answered", key |-> "alice"]
    /\ calls["c2"] = [pc |-> "answered", key |-> "bob"]
    /\ handed["alice"] = <<"c1">>
    /\ handed["bob"] = <<"c2">>
    /\ queue["alice"].attempts = 2
    /\ queue["alice"].status = "processing"
    /\ queue["bob"].status = "processing"

\* C12 as stated: a task that POST /enrich/complete was called for with
\* success = false three times in a row, with no enqueue and no success
\* report in between, is failed.
C12_FailedAfterThreeReports ==
    \A k \in DOMAIN queue :
        reports[k].calls >= MAX_ATTEMPTS => queue[k].status = "failed"

\* C12 as amended: a task that was three times handed out and then reported
\* with success = false, with no enqueue and no success report in between,
\* has attempts = 3, is failed and is not among the rows GET /enrich/next
\* selects from.
C12_FailedAfterThreeCycles ==
    \A k \in DOMAIN queue :
        reports[k].cycles >= MAX_ATTEMPTS =>
            /\ queue[k].status = "failed"
            /\ queue[k].attempts = MAX_ATTEMPTS
            /\ k \notin Eligible(queue)

C12_Witness ==
    /\ "alice" \in DOMAIN queue
    /\ reports["alice"].cycles = MAX_ATTEMPTS
    /\ queue["alice"].status = "failed"
    /\ \E c \in Clients : calls[c] = [pc |-> "answered", key |-> Absent]

\* C24: between two POST /enrich/queue requests for a key, GET /enrich/next
\* hands the key's task out at most MAX_ATTEMPTS times, whatever the
\* interleaving of the clients' calls and of the completion reports.
C24_BoundedHandOuts ==
    \A k \in Keys :
        /\ reports[k].handouts <= MAX_ATTEMPTS
        /\ k \in DOMAIN queue => queue[k].attempts = reports[k].handouts

C24_Witness ==
    /\ "alice" \in DOMAIN queue
    /\ reports["alice"].handouts = MAX_ATTEMPTS
    /\ queue["alice"].status = "failed"
    /\ \A c \in Clients : calls[c] = [pc |-> "answered", key |-> Absent]

-----------------------------------------------------------------------------
(* Properties of the enqueue and complete handlers *)

Active(task) == task.status \in {"pending", "processing"}
Enqueues == {"enrichQueue", "enrichQueueBulk"}

\* C13: POST /enrich/queue and POST /enrich/queue/bulk leave every task that
\* is pending or processing exactly as it was (status, attempts, queued_at
\* and error included), and the table keeps one row per key.
C13_EnqueueLeavesActiveTask ==
    [][ last'.op \in Enqueues =>
          \A k \in DOMAIN queue :
             /\ k \in DOMAIN queue'
             /\ queue'[k].public_identifier = k
             /\ Active(queue[k]) => queue'[k] = queue[k] ]_vars

\* the row is a task armed at time t: pending, no attempt made, no error
Armed(task, t) ==
    /\ task.status = "pending"
    /\ task.attempts = 0
    /\ task.error = Null
    /\ task.queued_at = t

\* C14: POST /enrich/queue for a key whose task is completed or failed makes
\* it pending with attempts 0 and no error, selectable by GET /enrich/next,
\* its other columns kept; for a key without task it inserts such a task;
\* a row an enqueue inserts or revives is always armed this way.
C14_EnqueueRearms ==
    [][ /\ (now' = now /\ last'.op = "enrichQueue" /\ Truthy(last'.key)) =>
             LET k == last'.key IN
             /\ k \in DOMAIN queue'
             /\ (k \notin DOMAIN queue \/ ~Active(queue[k])) =>
                   /\ Armed(queue'[k], now)
                   /\ k \in PendingUnderLimit(queue')
                   /\ k \in DOMAIN queue =>
                         \A f \in {"public_identifier", "url", "started_at", "completed_at"} :
                            queue'[k][f] = queue[k][f]
                   /\ k \notin DOMAIN queue =>
                         queue'[k].started_at = NoTime /\ queue'[k].completed_at = NoTime
             /\ \A j \in DOMAIN queue \ {k} : queue'[j] = queue[j]
        /\ (now' = now /\ last'.op \in Enqueues) =>
             \A k \in DOMAIN queue' :
                (k \notin DOMAIN queue \/ (~Active(queue[k]) /\ queue'[k] # queue[k]))
                   => Armed(queue'[k], now) ]_vars

C14_Witness ==
    /\ last.op = "enrichQueue" /\ last.key = "alice"
    /\ Armed(queue["alice"], MaxClock)
    /\ queue["alice"].completed_at = 1
    /\ "bob" \in DOMAIN queue /\ queue["bob"].status = "failed"

\* C15: POST /enrich/complete with success = true leaves the task of the key
\* completed, with completed_at stamped and error cleared, its other columns
\* kept, and the profile of the key full; the tasks and profiles of the
\* other keys, and the other columns of that profile, are unchanged.
C15_CompleteSuccess ==
    [][ (now' = now /\ last'.op = "enrichComplete") =>
          LET k == last'.key IN
          /\ DOMAIN queue' = DOMAIN queue
          /\ DOMAIN profiles' = DOMAIN profiles
          /\ k \in DOMAIN queue =>
                queue'[k] = [queue[k] EXCEPT !.status = "completed",
                                              !.completed_at = now,
                                              !.error = Null]
          /\ k \in DOMAIN profiles =>
                profiles'[k] = [profiles[k] EXCEPT !.is_partial = 0]
          /\ \A j \in DOMAIN queue \ {k} : queue'[j] = queue[j]
          /\ \A j \in DOMAIN profiles \ {k} : profiles'[j] = profiles[j] ]_vars

C15_Witness ==
    /\ last.op = "enrichComplete" /\ last.key = "alice"
    /\ now = MaxClock
    /\ "alice" \in DOMAIN queue
    /\ queue["alice"].status = "completed"
    /\ queue["alice"].completed_at = now
    /\ queue["alice"].attempts = 2
    /\ queue["alice"].error = Null
    /\ profiles["alice"].is_partial = 0
    /\ "bob" \in DOMAIN queue /\ queue["bob"].status = "processing"

\* C16: every change of a task's status is one of pending to processing by
\* GET /enrich/next, processing to completed by a success report, processing
\* to pending or failed by a failure report, and completed or failed to
\* pending by an enqueue.
C16_StateMachine ==
    [][ \A k \in DOMAIN queue \cap DOMAIN queue' :
          LET from == queue[k].status
              to   == queue'[k].status
          IN from # to =>
               \/ from = "pending" /\ to = "processing" /\ last'.op = "enrichNext"
               \/ from = "processing" /\ to = "completed" /\ last'.op = "enrichComplete"
               \/ from = "processing" /\ to \in {"pending", "failed"}
                     /\ last'.op = "enrichFailed"
               \/ from \in {"completed", "failed"} /\ to = "pending"
                     /\ last'.op \in Enqueues ]_vars

-----------------------------------------------------------------------------
(* Properties of the extension's dispatcher *)

Running == {r \in Runs : runs[r].pc \in Inside}

\* C17: at most one run of processEnrichmentQueue() is past the guard, and
\* isEnrichmentRunning is true exactly while one is: every way out of a run
\* (no task, error status, tab failure, thrown exception, completion) leaves
\* the flag false.
C17_OneRunInFlight ==
    /\ Cardinality(Running) <= 1
    /\ isEnrichmentRunning <=> Running # {}

C17_Witness ==
    /\ runs["r1"].pc = "skipped"
    /\ runs["r2"] = [pc |-> "fetchNext", key |-> Absent]
    /\ isEnrichmentRunning
    /\ "alice" \in DOMAIN queue /\ queue["alice"].status = "pending"
    /\ queue["alice"].attempts = 1
    /\ queue["alice"].error = "Failed to create tab"

\* C19: when a partial upsert carries a collection and the stored row's
\* column for it is null, the row afterwards holds the incoming collection.
C19_PartialFillsNullCollection ==
    [][ (Upserted /\ Incoming.isPartial /\ Incoming.publicIdentifier \in DOMAIN profiles) =>
          LET k == Incoming.publicIdentifier IN
          \A f \in DetailFields :
             (profiles[k][f] = Null /\ TruthyV(Incoming[f])) =>
                 rowToProfile(profiles'[k])[f] = Incoming[f] ]_vars

\* C20: about is merged as a detail collection: a partial upsert leaves a
\* non-null stored about as it was, and a full upsert stores the incoming
\* about, null when the observation carries none.
C20_AboutMergedAsDetail ==
    [][ (Upserted /\ Incoming.publicIdentifier \in DOMAIN profiles) =>
          LET k == Incoming.publicIdentifier IN
          /\ (Incoming.isPartial /\ profiles[k].about # Null) =>
                 profiles'[k].about = profiles[k].about
          /\ ~Incoming.isPartial => profiles'[k].about = Bind(Incoming.about) ]_vars

\* C21: an incoming scalar that is the empty string counts as not provided:
\* the upsert keeps the stored non-empty value of that column.
C21_EmptyScalarKeepsStored ==
    [][ (Upserted /\ Incoming.publicIdentifier \in DOMAIN profiles) =>
          LET k == Incoming.publicIdentifier IN
          \A f \in ScalarFields :
             (Incoming[f] = "" /\ Truthy(profiles[k][f])) =>
                 profiles'[k][f] = profiles[k][f] ]_vars

-----------------------------------------------------------------------------
(* Properties of the queue next to the profile syncs *)

\* this step merged a full observation of key k through POST /sync/profiles
MergedFull(k) ==
    /\ last' # last /\ last'.op = "syncProfiles"
    /\ \E i \in DOMAIN last'.batch :
          /\ last'.batch[i].publicIdentifier = k
          /\ ~last'.batch[i].isPartial
          /\ last'.outcomes[i] = "saved"

\* C22: when a full observation of a key is merged while the key's task is
\* pending or processing, the task is completed afterwards.
C22_FullMergeRetiresTask ==
    [][ \A k \in DOMAIN queue :
          (MergedFull(k) /\ Active(queue[k])) => queue'[k].status = "completed" ]_vars

-----------------------------------------------------------------------------
(* Properties of the dispatcher's reports *)

Processing(k) == k \in DOMAIN queue /\ queue[k].status = "processing"

\* C23: while the alarm keeps firing and every await settles, a task that
\* GET /enrich/next handed to the dispatcher does not stay processing: a
\* Complete report moves it on.
C23_ClaimedIsReported ==
    \A k \in Keys : Processing(k) ~> ~Processing(k)

\* C28: in every state of the queue every task has 0 <= attempts <= 3, a
\* pending task has attempts < 3 (so it is among the rows GET /enrich/next
\* selects from) and a failed task has attempts = 3.
C28_AttemptsInRange ==
    \A k \in DOMAIN queue :
        /\ queue[k].attempts \in 0..MAX_ATTEMPTS
        /\ queue[k].status = "pending" =>
               queue[k].attempts < MAX_ATTEMPTS /\ k \in Eligible(queue)
        /\ queue[k].status = "failed" => queue[k].attempts = MAX_ATTEMPTS

C28_Witness ==
    /\ DOMAIN queue = Keys
    /\ queue["alice"].status = "failed" /\ queue["alice"].attempts = MAX_ATTEMPTS
    /\ queue["bob"].status = "pending" /\ queue["bob"].attempts = MAX_ATTEMPTS - 1
    /\ last.op = "enrichFailed"

\* the row of k holds what a merged full observation leaves: every full
\* observation the dispatcher's sync can carry has the experience <<"x">>, no
\* partial one has an experience, and a partial merge keeps the column
FullObservationMerged(k) == profiles[k].experience = "[x]"

\* C27: a profile row is flagged full only if an observation with
\* isPartial = false was merged for its key, whatever the dispatcher's runs,
\* their syncs and their completion reports did.
C27_FullNeedsFullObservation ==
    \A k \in DOMAIN profiles :
        profiles[k].is_partial = 0 => FullObservationMerged(k)

-----------------------------------------------------------------------------
(* Properties of a profile sync that the process does not survive *)

\* C25: when the process dies in POST /sync/profiles after merging some items
\* and before the sync_log insert, the store holds the merges of those items;
\* only the sync_log record is missing.
C25_CrashKeepsMerged ==
    [][ last'.op = "syncProfilesCrash" =>
          /\ profiles' = SyncProfilesLoop(EmptyResult(profiles), last'.batch, now).store
          /\ syncLog' = syncLog ]_vars

-----------------------------------------------------------------------------
(* Properties of the text deduplication filter *)

Idempotent(text) ==
    /\ deduplicateString(deduplicateString(text)) = deduplicateString(text)
    /\ deduplicateText(deduplicateText(text)) = deduplicateText(text)

\* C18: cleaning a stored text twice gives what cleaning it once gives, for
\* both copies of the filter, and a startup backfill over a table that a
\* backfill already cleaned rewrites nothing.
C18_DedupIdempotent ==
    [][ /\ \A id \in DOMAIN posts :
              Idempotent(posts[id].author_name) /\ Idempotent(posts[id].author_headline)
        /\ (last.op = "restart" /\ last'.op = "restart") => posts' = posts ]_vars

\* C26: after any sync no profile row holds a headline that the filter
\* would still change.
C26_SyncedTextIsClean ==
    \A k \in DOMAIN profiles :
        profiles[k].headline # Null =>
            deduplicateText(Characters(profiles[k].headline)) = Characters(profiles[k].headline)

-----------------------------------------------------------------------------
(* Properties of the extension's profile cache *)

\* C29: when a run of initializeCache() resumes after its storage read, every
\* cache entry that saveProfile wrote since the read was issued is still the
\* one saveProfile wrote.
C29_InitKeepsNewerEntry ==
    [][ (last' # last /\ last'.op = "initializeCache") =>
          \A k \in inits[last'.key].saved :
             k \in DOMAIN profilesCache' /\ profilesCache'[k] = profilesCache[k] ]_vars

\* C30: a saveProfile with isPartial = true for a key whose cached entry is
\* full leaves the entry's experience, education, skills and about as they
\* were and leaves its isPartial flag false.
C30_PartialSaveKeepsFull ==
    [][ (last' # last /\ last'.op = "saveProfile" /\ last'.key \in DOMAIN profilesCache) =>
          LET k == last'.key IN
          (last'.batch[1].isPartial /\ ~profilesCache[k].isPartial) =>
              /\ \A f \in DetailFields \cup {"about"} :
                    profilesCache'[k][f] = profilesCache[k][f]
              /\ ~profilesCache'[k].isPartial ]_vars

====
